---- MODULE Spec2Model ----
(***************************************************************************)
(* The command-to-actuation pipeline of robot_control_system:              *)
(*   robot_web::command_handler  --mpsc channel-->  robot_core::main       *)
(* The web server thread (producer) and the main thread (consumer, sole    *)
(* owner of the PCA9685 controller and of the two GPIO pins) share nothing *)
(* but the channel.                                                        *)
(***************************************************************************)
EXTENDS Integers, Sequences, FiniteSets, TLC

\* ------------------------------------------------------------------ bounds
\* POST /command requests handled in one run.
MaxCmds == 3
\* set_pwm calls that return Err in one run.
MaxFail == 1
\* Largest magnitude of a posted speed or direction (the mappers clamp at 100).
MaxInput == 102

\* ------------------------------------------------- constants of robot_core
FRONT_LEFT_PULSE == 1150
FRONT_RIGHT_PULSE == 305
BACK_LEFT_PULSE == 1375
BACK_RIGHT_PULSE == 2185
MOTOR_CHANNEL == 0
FRONT_STEERING_CHANNEL == 1
BACK_STEERING_CHANNEL == 2
HORN_PIN == 23
LIGHTS_PIN == 24
NEUTRAL_PULSE == 1450
DEAD_ZONE == 7
SPEED_LIMIT == 100
DIRECTION_LIMIT == 100
REVERSE_SPAN == 200
FORWARD_SPAN == 750
TURBO_OFFSET == 100
U16_MAX == 65535
STATUS_OK == 200
STATUS_INTERNAL_SERVER_ERROR == 500

Channels == {MOTOR_CHANNEL, FRONT_STEERING_CHANNEL, BACK_STEERING_CHANNEL}

\* ------------------------------------------------------------ Pulse Mapper
\* i64::clamp
Clamp(x, lo, hi) == IF x < lo THEN lo ELSE IF x > hi THEN hi ELSE x

\* f32::round of the quotient num/den (den > 0): nearest integer, halfway
\* cases away from zero.
RoundDiv(num, den) ==
    IF num >= 0 THEN (2 * num + den) \div (2 * den)
    ELSE -((2 * (-num) + den) \div (2 * den))

\* `as u16` on a float already rounded to an integer: saturating cast.
AsU16(n) == Clamp(n, 0, U16_MAX)

\* u16::saturating_add
SaturatingAdd(a, b) == IF a + b > U16_MAX THEN U16_MAX ELSE a + b

\* 100.0 - (DEAD_ZONE as f32 + 1.0): the denominator of both slopes.
SlopeSpan == SPEED_LIMIT - (DEAD_ZONE + 1)

\* Faulty variant: speed_to_pulse without the turbo offset.
MutSpeedToPulseNoTurbo(speed, turbo) ==
    LET x == Clamp(speed, -SPEED_LIMIT, SPEED_LIMIT)
    IN  IF -DEAD_ZONE <= x /\ x <= DEAD_ZONE THEN AsU16(NEUTRAL_PULSE)
        ELSE IF x < -DEAD_ZONE
        THEN AsU16(RoundDiv(NEUTRAL_PULSE * SlopeSpan + (x + DEAD_ZONE) * REVERSE_SPAN, SlopeSpan))
        ELSE AsU16(RoundDiv(NEUTRAL_PULSE * SlopeSpan + (x - DEAD_ZONE) * FORWARD_SPAN,
                            SlopeSpan))

\* Faulty variant: the turbo offset applied before the dead-zone test.
MutSpeedToPulseTurboFirst(speed, turbo) ==
    LET x == Clamp(speed, -SPEED_LIMIT, SPEED_LIMIT)
        offset == IF turbo THEN TURBO_OFFSET ELSE 0
    IN  IF -DEAD_ZONE <= x /\ x <= DEAD_ZONE THEN AsU16(NEUTRAL_PULSE + offset)
        ELSE IF x < -DEAD_ZONE
        THEN AsU16(RoundDiv(NEUTRAL_PULSE * SlopeSpan + (x + DEAD_ZONE) * REVERSE_SPAN, SlopeSpan))
        ELSE AsU16(RoundDiv(NEUTRAL_PULSE * SlopeSpan + (x - DEAD_ZONE) * FORWARD_SPAN,
                            SlopeSpan) + offset)

\* Faulty variant: the turbo offset added on the reverse branch as well.
MutSpeedToPulseTurboBothWays(speed, turbo) ==
    LET x == Clamp(speed, -SPEED_LIMIT, SPEED_LIMIT)
        offset == IF turbo THEN TURBO_OFFSET ELSE 0
    IN  IF -DEAD_ZONE <= x /\ x <= DEAD_ZONE THEN AsU16(NEUTRAL_PULSE)
        ELSE IF x < -DEAD_ZONE
        THEN AsU16(RoundDiv(NEUTRAL_PULSE * SlopeSpan + (x + DEAD_ZONE) * REVERSE_SPAN, SlopeSpan)
                   + offset)
        ELSE AsU16(RoundDiv(NEUTRAL_PULSE * SlopeSpan + (x - DEAD_ZONE) * FORWARD_SPAN,
                            SlopeSpan) + offset)

\* speed_to_pulse.  The f32 expression NEUTRAL + (x -+ DEAD_ZONE) * (k / span)
\* is evaluated as the exact quotient (NEUTRAL*span + (x -+ DEAD_ZONE)*k)/span
\* and then rounded; the single-precision evaluation gives the same rounded
\* pulse for each of the 201 clamped inputs.
speed_to_pulse(speed, turbo) ==
    LET x == Clamp(speed, -SPEED_LIMIT, SPEED_LIMIT)
    IN  IF -DEAD_ZONE <= x /\ x <= DEAD_ZONE THEN AsU16(NEUTRAL_PULSE)
        ELSE IF x < -DEAD_ZONE
        THEN AsU16(RoundDiv(NEUTRAL_PULSE * SlopeSpan + (x + DEAD_ZONE) * REVERSE_SPAN, SlopeSpan))
        ELSE LET final_pulse ==
                     AsU16(RoundDiv(NEUTRAL_PULSE * SlopeSpan + (x - DEAD_ZONE) * FORWARD_SPAN,
                                    SlopeSpan))
             IN  IF turbo THEN SaturatingAdd(final_pulse, TURBO_OFFSET) ELSE final_pulse

\* Faulty variant: direction_to_pulse without the clamp.
MutDirectionToPulseNoClamp(direction) ==
    LET x == direction
        blend(left, right) ==
            AsU16(RoundDiv(left * (DIRECTION_LIMIT - x) + right * (x + DIRECTION_LIMIT),
                           2 * DIRECTION_LIMIT))
    IN  << blend(FRONT_LEFT_PULSE, FRONT_RIGHT_PULSE),
           blend(BACK_LEFT_PULSE, BACK_RIGHT_PULSE) >>

\* direction_to_pulse: <<front_pulse, back_pulse>>.  With
\* normalized_direction = (x + 100)/200 each blend L*(1 - n) + R*n is the
\* quotient (L*(100 - x) + R*(x + 100))/200, rounded as above.
direction_to_pulse(direction) ==
    LET x == Clamp(direction, -DIRECTION_LIMIT, DIRECTION_LIMIT)
        blend(left, right) ==
            AsU16(RoundDiv(left * (DIRECTION_LIMIT - x) + right * (x + DIRECTION_LIMIT),
                           2 * DIRECTION_LIMIT))
    IN  << blend(FRONT_LEFT_PULSE, FRONT_RIGHT_PULSE),
           blend(BACK_LEFT_PULSE, BACK_RIGHT_PULSE) >>

\* ---------------------------------------------------------- CommandPayload
\* serde_json::Value, by its kind: t is "int" (an integer number), "float",
\* "bool", "str" or "null"; i and b carry the integer and the boolean.
Number(n) == [t |-> "int", i |-> n, b |-> FALSE]
Boolean(v) == [t |-> "bool", i |-> 0, b |-> v]
FloatNumber == [t |-> "float", i |-> 0, b |-> FALSE]
String == [t |-> "str", i |-> 0, b |-> FALSE]
Null == [t |-> "null", i |-> 0, b |-> FALSE]

\* struct CommandPayload { command, value }
CommandPayload(name, v) == [command |-> name, value |-> v]

\* Value::as_i64 and Value::as_bool: an Option, as a sequence of length <= 1.
as_i64(v) == IF v.t = "int" THEN <<v.i>> ELSE <<>>
as_bool(v) == IF v.t = "bool" THEN <<v.b>> ELSE <<>>

\* ------------------------------------------------------------------- state
VARIABLES
    pc,               \* main: "new" "init" "freq" "gpio" (Initializing),
                      \*   "recv" "dispatch" (Running), "join" (Draining),
                      \*   "shutdown" "done" (Terminated), "panicked" (fatal exit)
    turbo,            \* main's local `turbo`
    pwm,              \* the controller's channel registers (0: never written)
    horn, lights,     \* main's Option<OutputPin>: [avail, level], the level
                      \*   "low", "high", or "unknown" until first driven
    command_payload,  \* the payload recv returned, being dispatched (<<>>: none)
    chan,             \* the mpsc queue
    rx,               \* the Receiver is alive
    tx,               \* main's own Sender `tx` is alive
    server,           \* server thread: "spawned" "serving", "stopping" (its
                      \*   Sender dropped, the thread still running),
                      \*   "finished" (joinable), "killed"
    resp,             \* history: the responses of command_handler, in order
    applied,          \* history: the payloads main has dispatched, in order
    lost,             \* history: the payloads queued when the Receiver was dropped
    writes,           \* history: every set_pwm / set_high / set_low call
    fatal,            \* history: the start-up step that panicked ("none")
    acq,              \* history: the outcome of each GPIO acquisition
    menu              \* environment: the payloads this run's clients post

vars == << pc, turbo, pwm, horn, lights, command_payload, chan, rx, tx, server,
           resp, applied, lost, writes, fatal, acq, menu >>

hardware == << pwm, horn, lights, writes >>

Initializing == pc \in {"new", "init", "freq", "gpio"}
Running == pc \in {"recv", "dispatch"}
Draining == pc = "join"
Terminated == pc \in {"shutdown", "done", "panicked"}

\* A Sender exists: main's `tx`, or the clone moved into the server thread
\* (AppState.command_tx), which lives until that thread stops serving.
SenderAlive == tx \/ server \in {"spawned", "serving"}

NFailed(w) == Cardinality({k \in 1..Len(w) : ~w[k].ok})

\* -------------------------------------------------------- Actuator Gateway
\* The hardware as one record, so that a handler's writes compose.
Hw == [pwm |-> pwm, horn |-> horn, lights |-> lights, writes |-> writes]

\* One entry of the history of hardware calls: the calling thread, main's
\* position, the channel or pin, the pulse or level, and whether the call
\* returned Ok.
Call(by, dev, val, ok) == [by |-> by, at |-> pc, dev |-> dev, val |-> val, ok |-> ok]

\* controller.set_pwm(ch, 0, pulse) called by thread `by`; ok: it returned Ok.
set_pwm(hw, by, ch, pulse, ok) ==
    [hw EXCEPT !.pwm = IF ok THEN [@ EXCEPT ![ch] = pulse] ELSE @,
               !.writes = Append(@, Call(by, ch, pulse, ok))]

\* if let Some(pin) = lights.as_mut() { pin.set_high() / pin.set_low() }
set_lights(hw, by, level) ==
    IF hw.lights.avail
    THEN [hw EXCEPT !.lights.level = IF level THEN "high" ELSE "low",
                    !.writes = Append(@, Call(by, LIGHTS_PIN, IF level THEN 1 ELSE 0, TRUE))]
    ELSE hw

\* if let Some(pin) = horn.as_mut() { pin.set_high() / pin.set_low() }
set_horn(hw, by, level) ==
    IF hw.horn.avail
    THEN [hw EXCEPT !.horn.level = IF level THEN "high" ELSE "low",
                    !.writes = Append(@, Call(by, HORN_PIN, IF level THEN 1 ELSE 0, TRUE))]
    ELSE hw

\* Faulty variant: the "speed" arm taking a missing value for 0.
MutSpeedArmDefaultsZero(p, hw, tb, ok1) ==
    [hw |-> set_pwm(hw, "main", MOTOR_CHANNEL,
                    speed_to_pulse(IF as_i64(p.value) # <<>> THEN as_i64(p.value)[1] ELSE 0, tb),
                    ok1),
     turbo |-> tb]

\* ------------------------------------------------------------ Control Loop
\* The arms of `match command_payload.command.as_str()`.  Each takes the
\* payload, the hardware, the turbo flag and the outcomes of its set_pwm
\* calls, and gives the hardware and the turbo flag it leaves.
speed_arm(p, hw, tb, ok1) ==
    IF as_i64(p.value) # <<>>
    THEN [hw |-> set_pwm(hw, "main", MOTOR_CHANNEL,
                         speed_to_pulse(as_i64(p.value)[1], tb), ok1),
          turbo |-> tb]
    ELSE [hw |-> hw, turbo |-> tb]

\* Faulty variant: the "direction" arm giving up after a failed front write.
MutDirectionArmStopsAtFailure(p, hw, tb, ok1, ok2) ==
    IF as_i64(p.value) # <<>>
    THEN LET pulses == direction_to_pulse(as_i64(p.value)[1])
             front == set_pwm(hw, "main", FRONT_STEERING_CHANNEL, pulses[1], ok1)
         IN  [hw |-> IF ok1
                     THEN set_pwm(front, "main", BACK_STEERING_CHANNEL, pulses[2], ok2)
                     ELSE front,
              turbo |-> tb]
    ELSE [hw |-> hw, turbo |-> tb]

direction_arm(p, hw, tb, ok1, ok2) ==
    IF as_i64(p.value) # <<>>
    THEN LET pulses == direction_to_pulse(as_i64(p.value)[1])
         IN  [hw |-> set_pwm(set_pwm(hw, "main", FRONT_STEERING_CHANNEL, pulses[1], ok1),
                             "main", BACK_STEERING_CHANNEL, pulses[2], ok2),
              turbo |-> tb]
    ELSE [hw |-> hw, turbo |-> tb]

headlights_arm(p, hw, tb) ==
    IF as_bool(p.value) # <<>>
    THEN [hw |-> set_lights(hw, "main", as_bool(p.value)[1]), turbo |-> tb]
    ELSE [hw |-> hw, turbo |-> tb]

horn_arm(p, hw, tb) ==
    IF as_bool(p.value) # <<>>
    THEN [hw |-> set_horn(hw, "main", as_bool(p.value)[1]), turbo |-> tb]
    ELSE [hw |-> hw, turbo |-> tb]

\* Faulty variant: the "turbo" arm applying the offset to the motor at once.
MutTurboArmBoostsMotor(p, hw, tb) ==
    IF as_bool(p.value) # <<>>
    THEN [hw |-> set_pwm(hw, "main", MOTOR_CHANNEL,
                         SaturatingAdd(hw.pwm[MOTOR_CHANNEL], TURBO_OFFSET), TRUE),
          turbo |-> as_bool(p.value)[1]]
    ELSE [hw |-> hw, turbo |-> tb]

turbo_arm(p, hw, tb) ==
    IF as_bool(p.value) # <<>>
    THEN [hw |-> hw, turbo |-> as_bool(p.value)[1]]
    ELSE [hw |-> hw, turbo |-> tb]

\* Faulty variant: the "calibrate" arm without its back write.
MutCalibrateFrontOnly(p, hw, tb, ok1, ok2) ==
    LET neutral == direction_to_pulse(0)
    IN  [hw |-> set_pwm(hw, "main", FRONT_STEERING_CHANNEL, neutral[1], ok1),
         turbo |-> tb]

calibrate_arm(p, hw, tb, ok1, ok2) ==
    LET neutral == direction_to_pulse(0)
    IN  [hw |-> set_pwm(set_pwm(hw, "main", FRONT_STEERING_CHANNEL, neutral[1], ok1),
                        "main", BACK_STEERING_CHANNEL, neutral[2], ok2),
         turbo |-> tb]

\* Faulty variant: the default arm clearing the turbo flag.
MutUnknownArmClearsTurbo(p, hw, tb) == [hw |-> hw, turbo |-> FALSE]

unknown_arm(p, hw, tb) == [hw |-> hw, turbo |-> tb]

match_command(p, hw, tb, ok1, ok2) ==
    CASE p.command = "speed" -> speed_arm(p, hw, tb, ok1)
      [] p.command = "direction" -> direction_arm(p, hw, tb, ok1, ok2)
      [] p.command = "headlights" -> headlights_arm(p, hw, tb)
      [] p.command = "horn" -> horn_arm(p, hw, tb)
      [] p.command = "turbo" -> turbo_arm(p, hw, tb)
      [] p.command = "calibrate" -> calibrate_arm(p, hw, tb, ok1, ok2)
      [] OTHER -> unknown_arm(p, hw, tb)

\* Faulty variant: the exit sequence without its motor write.
MutNeutralOffKeepsMotor(hw, ok1, ok2, ok3) ==
    LET neutral == direction_to_pulse(0)
        h1 == set_pwm(hw, "main", FRONT_STEERING_CHANNEL, neutral[1], ok1)
        h2 == set_pwm(h1, "main", BACK_STEERING_CHANNEL, neutral[2], ok2)
    IN  set_horn(set_lights(h2, "main", FALSE), "main", FALSE)

\* Lines 203-213: the outputs set to neutral/off before exit.
neutral_off(hw, ok1, ok2, ok3) ==
    LET neutral == direction_to_pulse(0)
        h1 == set_pwm(hw, "main", FRONT_STEERING_CHANNEL, neutral[1], ok1)
        h2 == set_pwm(h1, "main", BACK_STEERING_CHANNEL, neutral[2], ok2)
        h3 == set_pwm(h2, "main", MOTOR_CHANNEL, speed_to_pulse(0, FALSE), ok3)
    IN  set_horn(set_lights(h3, "main", FALSE), "main", FALSE)

SetHardware(hw) ==
    /\ pwm' = hw.pwm
    /\ horn' = hw.horn
    /\ lights' = hw.lights
    /\ writes' = hw.writes

\* A panic of main: its locals are dropped while it unwinds, the Receiver
\* (with whatever is queued) and `tx` among them.
Panic(step) ==
    /\ pc' = "panicked"
    /\ fatal' = step
    /\ rx' = FALSE
    /\ tx' = FALSE
    /\ lost' = chan
    /\ chan' = <<>>
    /\ UNCHANGED << turbo, hardware, command_payload, server, resp, applied, acq, menu >>

Proceed(next) ==
    /\ pc' = next
    /\ UNCHANGED << turbo, hardware, command_payload, chan, rx, tx, server, resp,
                    applied, lost, fatal, acq, menu >>

\* Line 33-37: Pca9685::new(); an Err panics.
Pca9685_new ==
    /\ pc = "new"
    /\ \E ok \in BOOLEAN : IF ok THEN Proceed("init") ELSE Panic("new")

\* Faulty variant: controller.init() whose Err is logged, not unwrapped.
MutInitErrorLogged ==
    /\ pc = "init"
    /\ \E ok \in BOOLEAN :
          IF ok THEN Proceed("freq")
          ELSE /\ pc' = "freq"
               /\ fatal' = "init"
               /\ UNCHANGED << turbo, hardware, command_payload, chan, rx, tx, server,
                               resp, applied, lost, acq, menu >>

\* Line 42: controller.init().unwrap()
controller_init ==
    /\ pc = "init"
    /\ \E ok \in BOOLEAN : IF ok THEN Proceed("freq") ELSE Panic("init")

\* Lines 44-47: controller.set_pwm_freq(FREQ); an Err panics.
set_pwm_freq ==
    /\ pc = "freq"
    /\ \E ok \in BOOLEAN : IF ok THEN Proceed("gpio") ELSE Panic("freq")

\* Lines 49-63: Gpio::new(), gpio.get(23), gpio.get(24).  into_output()
\* leaves the pin's level as it finds it.
NoPin == [avail |-> FALSE, level |-> "unknown"]
OutputPin == [avail |-> TRUE, level |-> "unknown"]

gpio_pins(gpio_ok, horn_ok, lights_ok) ==
    IF gpio_ok
    THEN IF ~horn_ok \/ ~lights_ok
         THEN [horn |-> NoPin, lights |-> NoPin]
         ELSE [horn |-> OutputPin, lights |-> OutputPin]
    ELSE [horn |-> NoPin, lights |-> NoPin]

gpio_setup ==
    /\ pc = "gpio"
    /\ \E gpio_ok, horn_ok, lights_ok \in BOOLEAN :
          /\ gpio_ok \/ (~horn_ok /\ ~lights_ok)
          /\ acq' = [gpio |-> gpio_ok, horn |-> horn_ok, lights |-> lights_ok]
          /\ horn' = gpio_pins(gpio_ok, horn_ok, lights_ok).horn
          /\ lights' = gpio_pins(gpio_ok, horn_ok, lights_ok).lights
    /\ pc' = "recv"
    /\ UNCHANGED << turbo, pwm, writes, command_payload, chan, rx, tx, server, resp,
                    applied, lost, fatal, menu >>

\* Faulty variant: a receive that keeps only the newest queued payload.
MutRecvLatest ==
    /\ pc = "recv"
    /\ IF chan # <<>>
       THEN /\ command_payload' = << chan[Len(chan)] >>
            /\ chan' = <<>>
            /\ pc' = "dispatch"
       ELSE /\ ~SenderAlive
            /\ pc' = "join"
            /\ UNCHANGED << command_payload, chan >>
    /\ UNCHANGED << turbo, hardware, rx, tx, server, resp, applied, lost, fatal,
                    acq, menu >>

\* Line 66: rx.recv().  It returns the oldest queued payload; with the queue
\* empty it blocks while a Sender exists and returns Err once none does.
recv ==
    /\ pc = "recv"
    /\ IF chan # <<>>
       THEN /\ command_payload' = << Head(chan) >>
            /\ chan' = Tail(chan)
            /\ pc' = "dispatch"
       ELSE /\ ~SenderAlive
            /\ pc' = "join"
            /\ UNCHANGED << command_payload, chan >>
    /\ UNCHANGED << turbo, hardware, rx, tx, server, resp, applied, lost, fatal,
                    acq, menu >>

\* Lines 67-187: the Ok arm, back to the top of the loop.
dispatch ==
    /\ pc = "dispatch"
    /\ \E ok1, ok2 \in BOOLEAN :
          LET out == match_command(command_payload[1], Hw, turbo, ok1, ok2)
          IN  /\ NFailed(out.hw.writes) <= MaxFail
              /\ SetHardware(out.hw)
              /\ turbo' = out.turbo
    /\ applied' = Append(applied, command_payload[1])
    /\ command_payload' = <<>>
    /\ pc' = "recv"
    /\ UNCHANGED << chan, rx, tx, server, resp, lost, fatal, acq, menu >>

\* Lines 198-201: server_thread_handle.join() blocks, with no timeout, until
\* the server thread has ended; an Err (the thread panicked) is only logged.
join ==
    /\ pc = "join"
    /\ server = "finished"
    /\ pc' = "shutdown"
    /\ UNCHANGED << turbo, hardware, command_payload, chan, rx, tx, server, resp,
                    applied, lost, fatal, acq, menu >>

\* Lines 203-216: the outputs to neutral/off, then main returns and its
\* locals are dropped.
shutdown ==
    /\ pc = "shutdown"
    /\ \E ok1, ok2, ok3 \in BOOLEAN :
          LET hw == neutral_off(Hw, ok1, ok2, ok3)
          IN  /\ NFailed(hw.writes) <= MaxFail
              /\ SetHardware(hw)
    /\ pc' = "done"
    /\ rx' = FALSE
    /\ tx' = FALSE
    /\ UNCHANGED << turbo, command_payload, chan, server, resp, applied, lost,
                    fatal, acq, menu >>

\* The process ends once main has unwound: the server thread ends with it.
process_exit ==
    /\ pc = "panicked"
    /\ server # "killed"
    /\ server' = "killed"
    /\ UNCHANGED << pc, turbo, hardware, command_payload, chan, rx, tx, resp,
                    applied, lost, fatal, acq, menu >>

\* ---------------------------------------------------------- Command Source
\* start_axum_server_in_thread: the runtime is built, the listener bound.
server_start ==
    /\ server = "spawned"
    /\ server' = "serving"
    /\ UNCHANGED << pc, turbo, hardware, command_payload, chan, rx, tx, resp,
                    applied, lost, fatal, acq, menu >>

\* The runtime cannot be built (lines 106-112), or run_axum_server returns
\* an Err (lines 116-118): the thread stops serving and its Sender is
\* dropped.  The thread itself has still to log, drop the runtime and return.
server_stop ==
    /\ server \in {"spawned", "serving"}
    /\ server' = "stopping"
    /\ UNCHANGED << pc, turbo, hardware, command_payload, chan, rx, tx, resp,
                    applied, lost, fatal, acq, menu >>

\* The closure of lines 98-120 returns (or unwinds): the thread has ended and
\* JoinHandle::join returns, Ok or Err.
server_exit ==
    /\ server = "stopping"
    /\ server' = "finished"
    /\ UNCHANGED << pc, turbo, hardware, command_payload, chan, rx, tx, resp,
                    applied, lost, fatal, acq, menu >>

\* Faulty variant: a one-slot queue whose send reports Ok for a payload it
\* had no room for.
MutSendOneSlot(queue, receiver, p) ==
    IF receiver THEN [ok |-> TRUE, queue |-> IF queue = <<>> THEN << p >> ELSE queue]
    ELSE [ok |-> FALSE, queue |-> queue]

\* mpsc::Sender::send: Ok and the payload queued while the Receiver lives,
\* Err (nothing queued) once it is dropped.
send(queue, receiver, p) ==
    IF receiver THEN [ok |-> TRUE, queue |-> Append(queue, p)]
    ELSE [ok |-> FALSE, queue |-> queue]

\* Faulty variant: a handler that answers 200 whatever send returned.
MutResponseAlwaysOk(p, sent) == [status |-> STATUS_OK, payload |-> p]

\* The (StatusCode, Json) that command_handler answers with.
response(p, sent) ==
    IF sent.ok THEN [status |-> STATUS_OK, payload |-> p]
    ELSE [status |-> STATUS_INTERNAL_SERVER_ERROR, payload |-> p]

\* Faulty variant: a handler that sets the motor itself.
MutHandlerDrivesMotor(p) ==
    /\ server = "serving"
    /\ Len(resp) < MaxCmds
    /\ LET sent == send(chan, rx, p)
       IN  /\ chan' = sent.queue
           /\ resp' = Append(resp, response(p, sent))
    /\ SetHardware(IF p.command = "speed" /\ as_i64(p.value) # <<>>
                   THEN set_pwm(Hw, "server", MOTOR_CHANNEL,
                                speed_to_pulse(as_i64(p.value)[1], FALSE), TRUE)
                   ELSE Hw)
    /\ UNCHANGED << pc, turbo, command_payload, rx, tx, server, applied,
                    lost, fatal, acq, menu >>

\* POST /command with payload p.  The handler has no await point: on the
\* current-thread runtime it runs from the send to the response undivided.
command_handler(p) ==
    /\ server = "serving"
    /\ Len(resp) < MaxCmds
    /\ LET sent == send(chan, rx, p)
       IN  /\ chan' = sent.queue
           /\ resp' = Append(resp, response(p, sent))
    /\ UNCHANGED << pc, turbo, hardware, command_payload, rx, tx, server, applied,
                    lost, fatal, acq, menu >>

\* ----------------------------------------------------------- specification
\* What the clients of one run post: a few payloads of one family.
MenuDrive ==
    { CommandPayload("speed", Number(50)), CommandPayload("turbo", Boolean(TRUE)),
      CommandPayload("turbo", Boolean(FALSE)) }
MenuReverse ==
    { CommandPayload("speed", Number(-50)), CommandPayload("speed", Number(5)),
      CommandPayload("turbo", Boolean(TRUE)) }
MenuSteer ==
    { CommandPayload("direction", Number(-100)), CommandPayload("direction", Number(40)),
      CommandPayload("calibrate", Null) }
MenuSteerDrive ==
    { CommandPayload("direction", Number(150)), CommandPayload("calibrate", Null),
      CommandPayload("speed", Number(50)) }
MenuLights ==
    { CommandPayload("headlights", Boolean(TRUE)), CommandPayload("headlights", Boolean(FALSE)),
      CommandPayload("horn", Boolean(TRUE)) }
MenuHorn ==
    { CommandPayload("horn", Boolean(TRUE)), CommandPayload("horn", Boolean(FALSE)),
      CommandPayload("speed", Number(50)) }
MenuMalformedSpeed ==
    { CommandPayload("speed", Number(50)), CommandPayload("speed", String),
      CommandPayload("turbo", Number(1)) }
MenuMalformedTurbo ==
    { CommandPayload("turbo", Boolean(TRUE)), CommandPayload("speed", FloatNumber),
      CommandPayload("dance", Null) }
MenuMalformedSteer ==
    { CommandPayload("direction", Number(40)), CommandPayload("direction", Null),
      CommandPayload("headlights", Number(1)) }
MenuMalformedHorn ==
    { CommandPayload("horn", Boolean(TRUE)), CommandPayload("horn", String),
      CommandPayload("headlights", Null) }
Menus ==
    { MenuDrive, MenuReverse, MenuSteer, MenuSteerDrive, MenuLights, MenuHorn,
      MenuMalformedSpeed, MenuMalformedTurbo, MenuMalformedSteer, MenuMalformedHorn }

\* The state after lines 22-31: the channel made, the clone moved into the
\* spawned server thread, `tx` still held by main.
Start(m, main_tx) ==
    /\ pc = "new"
    /\ turbo = FALSE
    /\ pwm = [ch \in Channels |-> 0]
    /\ horn = [avail |-> FALSE, level |-> "unknown"]
    /\ lights = [avail |-> FALSE, level |-> "unknown"]
    /\ command_payload = <<>>
    /\ chan = <<>>
    /\ rx = TRUE
    /\ tx = main_tx
    /\ server = "spawned"
    /\ resp = <<>>
    /\ applied = <<>>
    /\ lost = <<>>
    /\ writes = <<>>
    /\ fatal = "none"
    /\ acq = [gpio |-> FALSE, horn |-> FALSE, lights |-> FALSE]
    /\ menu = m

Init == \E m \in Menus : Start(m, TRUE)

Post == \E p \in menu : command_handler(p)

Next ==
    \/ Pca9685_new
    \/ controller_init
    \/ set_pwm_freq
    \/ gpio_setup
    \/ recv
    \/ dispatch
    \/ process_exit
    \/ server_start
    \/ server_stop
    \/ server_exit
    \/ Post

Spec == Init /\ [][Next]_vars

\* The threads are scheduled: a step main can take is taken.  Nothing
\* obliges a client to post or the server to stop.
Main ==
    \/ Pca9685_new
    \/ controller_init
    \/ set_pwm_freq
    \/ gpio_setup
    \/ recv
    \/ dispatch
    \/ process_exit

FairSpec == Spec /\ WF_vars(Main) /\ WF_vars(server_start)

\* The sequence speed v, turbo true, speed v for each v above the dead zone.
MenuTurbo(v) == { CommandPayload("speed", Number(v)), CommandPayload("turbo", Boolean(TRUE)) }

InitTurbo == \E v \in (DEAD_ZONE + 1)..SPEED_LIMIT : Start(MenuTurbo(v), TRUE)

SpecTurbo == InitTurbo /\ [][Next]_vars

\* Clients post one speed v of the dead zone and turbo true, in any order
\* and number.
InitDeadZone == \E v \in -DEAD_ZONE..DEAD_ZONE : Start(MenuTurbo(v), TRUE)

SpecDeadZone == InitDeadZone /\ [][Next]_vars

\* The ends of the pieces of speed_to_pulse: beyond the clamp, at the clamp,
\* just outside the dead zone, and 0.
SpeedEnds ==
    { -MaxInput, -SPEED_LIMIT, -(DEAD_ZONE + 1), 0, DEAD_ZONE + 1, SPEED_LIMIT, MaxInput }

\* Clients post two speeds a < b and turbo true, in any order and number.
MenuPair(a, b) ==
    { CommandPayload("speed", Number(a)), CommandPayload("speed", Number(b)),
      CommandPayload("turbo", Boolean(TRUE)) }

InitPair == \E a, b \in SpeedEnds : a < b /\ Start(MenuPair(a, b), TRUE)

SpecPair == InitPair /\ [][Next]_vars

\* The directions at and beyond either clamp bound, and the centre.
DirectionEnds ==
    (-MaxInput..-DIRECTION_LIMIT) \cup {0} \cup (DIRECTION_LIMIT..MaxInput)

\* Clients post one such direction and calibrate, in any order and number.
MenuDirection(d) == { CommandPayload("direction", Number(d)), CommandPayload("calibrate", Null) }

InitDirection == \E d \in DirectionEnds : Start(MenuDirection(d), TRUE)

SpecDirection == InitDirection /\ [][Next]_vars

\* Clients post one speed v outside the dead zone, reverse or forward, and
\* turbo true, in any order and number.
InitOutside ==
    \E v \in (-SPEED_LIMIT..-(DEAD_ZONE + 1)) \cup ((DEAD_ZONE + 1)..SPEED_LIMIT) :
        Start(MenuTurbo(v), TRUE)

SpecOutside == InitOutside /\ [][Next]_vars

\* One family of payloads, main scheduled: a step main can take is taken.
InitQueue == Start(MenuDrive, TRUE)

FairSpecQueue == InitQueue /\ [][Next]_vars /\ WF_vars(Main)

\* main as it runs once recv() has nothing left to wait for.  recv() returns
\* Err only when every Sender is gone, and main's own `tx` (line 22) stays in
\* scope until main returns: under Spec the steps join and shutdown are never
\* enabled.  SpecDrain starts main without that handle, which is what lets
\* lines 188-216 run.
InitDisconnected == \E m \in Menus : Start(m, FALSE)

NextDrain ==
    \/ Next
    \/ join
    \/ shutdown

SpecDrain == InitDisconnected /\ [][NextDrain]_vars

FairSpecDrain == SpecDrain /\ WF_vars(Main \/ join \/ shutdown) /\ WF_vars(server_start)

\* ------------------------------------------------------------- properties
\* The last call made on channel or pin `dev` (<<>> if none).
LastCall(dev) ==
    LET ks == {k \in 1..Len(writes) : writes[k].dev = dev}
    IN  IF ks = {} THEN <<>> ELSE << writes[CHOOSE k \in ks : \A j \in ks : j <= k] >>

\* The calls of the exit sequence (lines 203-213) made on `dev`.
ExitCalls(dev) == {k \in 1..Len(writes) : writes[k].at = "shutdown" /\ writes[k].dev = dev}

\* C1: once the server thread has ended and so dropped its Sender, the
\* Control Loop (if it is in Running) eventually reaches Terminated with the
\* exit sequence issued exactly once on every PWM channel.
C1_ClosedChannelTerminates ==
    (server = "finished" /\ Running)
        ~> (pc = "done" /\ \A ch \in Channels : Cardinality(ExitCalls(ch)) = 1)

\* The last write reaching the hardware: the register of `ch` holds the
\* pulse of the last set_pwm call on it that returned Ok.
Holds(ch, pulse) ==
    LastCall(ch) # <<>> /\ LastCall(ch)[1].val = pulse /\ (LastCall(ch)[1].ok => pwm[ch] = pulse)

\* C2: when the exit path has completed, the last pulse written to the
\* motor channel is speed_to_pulse(0, FALSE) = 1450, the last pulses written
\* to the front and back steering channels are direction_to_pulse(0), each
\* by a call of the exit sequence (and the register holds it if that call
\* returned Ok), and every available pin is low: whatever the turbo flag
\* and the commands dispatched before.
C2_ShutdownNeutral ==
    pc = "done" =>
        /\ speed_to_pulse(0, FALSE) = 1450
        /\ Holds(MOTOR_CHANNEL, 1450)
        /\ Holds(FRONT_STEERING_CHANNEL, direction_to_pulse(0)[1])
        /\ Holds(BACK_STEERING_CHANNEL, direction_to_pulse(0)[2])
        /\ \A ch \in Channels : LastCall(ch)[1].at = "shutdown"
        /\ lights.avail => lights.level = "low"
        /\ horn.avail => horn.level = "low"

\* The exit path completed after speed 50 was written with turbo on, the
\* flag still set, and with both pins acquired.
C2_Witness ==
    /\ pc = "done"
    /\ turbo
    /\ horn.avail /\ lights.avail
    /\ \E k \in 1..Len(writes) :
          /\ writes[k].dev = MOTOR_CHANNEL
          /\ writes[k].at = "dispatch"
          /\ writes[k].ok
          /\ writes[k].val = speed_to_pulse(50, TRUE)

\* The payloads whose send returned Ok, in the order of the sends.
Sent ==
    LET oks == SelectSeq(resp, LAMBDA r : r.status = STATUS_OK)
    IN  [k \in 1..Len(oks) |-> oks[k].payload]

\* C3: the payloads main has dispatched, the one it is dispatching and the
\* ones still queued (or dropped with the Receiver) are, in this order,
\* exactly the payloads whose sends succeeded, in the order of the sends:
\* none reordered, merged, duplicated or skipped.
C3_Fifo == Sent = applied \o command_payload \o chan \o lost

\* Two different commands dispatched while a third is queued.
C3_Witness ==
    /\ Len(applied) = 2
    /\ applied[1] # applied[2]
    /\ chan # <<>>
    /\ chan[1] # applied[2]

\* C4: every hardware call is made by main, while it dispatches the one
\* payload it holds or runs its exit sequence; main holds a payload exactly
\* while it dispatches.
C4_Serialized ==
    /\ \A k \in 1..Len(writes) :
          writes[k].by = "main" /\ writes[k].at \in {"dispatch", "shutdown"}
    /\ Len(command_payload) = IF pc = "dispatch" THEN 1 ELSE 0

\* A command is being dispatched, after one that wrote, while the server has
\* queued another.
C4_Witness ==
    /\ pc = "dispatch"
    /\ Len(applied) = 1
    /\ Len(chan) = 1
    /\ writes # <<>>

\* The calls made on the motor channel, in order.
MotorCalls == SelectSeq(writes, LAMBDA w : w.dev = MOTOR_CHANNEL)

\* C5: for the speed v of the run (each v in 8..100), once speed v, turbo
\* true, speed v have been dispatched, two motor pulses have been written
\* and the second is the first plus 100; and speed_to_pulse(v, TRUE) =
\* speed_to_pulse(v, FALSE) + 100.
C5_TurboOffset ==
    \A p \in menu :
        p.command = "speed" =>
            /\ speed_to_pulse(p.value.i, TRUE) = speed_to_pulse(p.value.i, FALSE) + 100
            /\ applied = << p, CommandPayload("turbo", Boolean(TRUE)), p >> =>
                    /\ Len(MotorCalls) = 2
                    /\ MotorCalls[2].val = MotorCalls[1].val + 100

\* The sequence dispatched for v = 100: 2208, then 2308.
C5_Witness ==
    /\ applied = << CommandPayload("speed", Number(100)), CommandPayload("turbo", Boolean(TRUE)),
                    CommandPayload("speed", Number(100)) >>
    /\ MotorCalls[1].ok /\ MotorCalls[2].ok
    /\ pwm[MOTOR_CHANNEL] = 2308

\* C6: when the command dispatched last is calibrate, the last pulses
\* written to the front and back steering channels are direction_to_pulse(0)
\* = (728, 1780) (held by the register if the call returned Ok); the exit
\* sequence writes the same pair.
C6_CalibrateNeutral ==
    /\ (applied # <<>> /\ applied[Len(applied)].command = "calibrate") =>
            /\ direction_to_pulse(0) = << 728, 1780 >>
            /\ Holds(FRONT_STEERING_CHANNEL, 728)
            /\ Holds(BACK_STEERING_CHANNEL, 1780)
    /\ \A k \in ExitCalls(FRONT_STEERING_CHANNEL) : writes[k].val = 728
    /\ \A k \in ExitCalls(BACK_STEERING_CHANNEL) : writes[k].val = 1780

\* calibrate dispatched after a direction command that had moved both axles.
C6_Witness ==
    /\ Len(applied) = 2
    /\ applied[1] = CommandPayload("direction", Number(-100))
    /\ applied[2].command = "calibrate"
    /\ writes[1].ok /\ writes[2].ok /\ writes[3].ok /\ writes[4].ok
    /\ writes[1].val = FRONT_LEFT_PULSE /\ writes[2].val = BACK_LEFT_PULSE
    /\ pwm[FRONT_STEERING_CHANNEL] = 728 /\ pwm[BACK_STEERING_CHANNEL] = 1780

\* A payload whose value is absent or of the wrong type for its name, or whose
\* name is not a command.
Malformed(p) ==
    \/ p.command \in {"speed", "direction"} /\ p.value.t # "int"
    \/ p.command \in {"headlights", "horn", "turbo"} /\ p.value.t # "bool"
    \/ p.command \notin {"speed", "direction", "headlights", "horn", "turbo", "calibrate"}

\* C7: the step that dispatches a malformed or unknown payload makes no
\* hardware call, leaves the turbo flag, the registers and the pins as they
\* were and returns to the receive; and the loop is left only by a receive
\* that finds the queue empty and every Sender gone.
C7_MalformedIgnored ==
    [][ /\ (pc = "dispatch" /\ pc' # pc /\ Malformed(command_payload[1])) =>
              /\ pc' = "recv"
              /\ UNCHANGED << turbo, pwm, horn, lights, writes >>
        /\ (Running /\ ~Running') => (pc = "recv" /\ chan = <<>> /\ ~SenderAlive)
      ]_vars

\* A malformed payload was dispatched and a well-formed one after it.
C7_Witness ==
    /\ Len(applied) = 3
    /\ ~Malformed(applied[1])
    /\ Malformed(applied[2])
    /\ ~Malformed(applied[3])
    /\ Len(writes) = 2
    /\ pc = "recv"

\* C8: every answer of command_handler is STATUS_OK exactly when the
\* Receiver was alive and the payload was appended to the queue, and
\* STATUS_INTERNAL_SERVER_ERROR exactly when the Receiver was gone (and
\* nothing was queued).
C8_DeliveryReported ==
    [][ resp' # resp =>
            LET r == resp'[Len(resp')]
            IN  /\ resp' = Append(resp, r)
                /\ IF rx
                   THEN r.status = STATUS_OK /\ chan' = Append(chan, r.payload)
                   ELSE r.status = STATUS_INTERNAL_SERVER_ERROR /\ chan' = chan
      ]_vars

\* A request answered 200 and a later one, after the Receiver was dropped,
\* answered 500.
C8_Witness ==
    /\ Len(resp) = 2
    /\ resp[1].status = STATUS_OK
    /\ resp[2].status = STATUS_INTERNAL_SERVER_ERROR
    /\ ~rx

\* C9: when a start-up step of the PWM controller has failed, main is at its
\* fatal exit, never having received or dispatched a payload or made a
\* hardware call, whatever was queued by then.
C9_FatalInit ==
    fatal # "none" =>
        /\ pc = "panicked"
        /\ applied = <<>>
        /\ command_payload = <<>>
        /\ writes = <<>>
        /\ ~rx

\* set_pwm_freq failed with two payloads already queued.
C9_Witness ==
    /\ fatal = "freq"
    /\ Len(lost) = 2
    /\ Len(Sent) = 2

\* C10: GPIO acquisition degrades per line: a line that was acquired is
\* available when the other was not, and its command then changes its level.
C10_PerLineDegradation ==
    ~Initializing =>
        /\ (acq.gpio /\ acq.horn /\ ~acq.lights) =>
              /\ horn.avail
              /\ \A b \in BOOLEAN :
                    (applied # <<>> /\ applied[Len(applied)] = CommandPayload("horn", Boolean(b)))
                        => horn.level = IF b THEN "high" ELSE "low"
        /\ (acq.gpio /\ acq.lights /\ ~acq.horn) =>
              /\ lights.avail
              /\ \A b \in BOOLEAN :
                    (applied # <<>> /\ applied[Len(applied)] = CommandPayload("headlights", Boolean(b)))
                        => lights.level = IF b THEN "high" ELSE "low"


Dispatched(name) ==
    SelectSeq(applied, LAMBDA p : p.command = name /\ ~Malformed(p))

\* The turbo flag in force when the k-th dispatched payload was matched: the
\* value of the last well-formed turbo payload before it, FALSE if none.
TurboAt(k) ==
    LET ts == {j \in 1..(k - 1) : applied[j].command = "turbo" /\ ~Malformed(applied[j])}
    IN  IF ts = {} THEN FALSE ELSE applied[CHOOSE j \in ts : \A i \in ts : i <= j].value.b

\* The flags in force at the dispatched well-formed speed payloads, in order.
SpeedTurbos ==
    LET ks == {k \in 1..Len(applied) : applied[k].command = "speed" /\ ~Malformed(applied[k])}
        nth[n \in 1..Cardinality(ks)] ==
            CHOOSE k \in ks : Cardinality({j \in ks : j <= k}) = n
    IN  [n \in 1..Cardinality(ks) |-> TurboAt(nth[n])]

\* C12: speed_to_pulse(s, t) = 1450 for every integer s of -7..7 and both
\* values of t; and each dispatched speed command whose value lies in -7..7
\* has 1450 passed to set_pwm on the motor channel, whether the turbo flag
\* was set before it or not.
C12_DeadZoneNeutral ==
    /\ \A s \in -DEAD_ZONE..DEAD_ZONE, t \in BOOLEAN : speed_to_pulse(s, t) = 1450
    /\ Len(MotorCalls) = Len(Dispatched("speed"))
    /\ \A k \in 1..Len(MotorCalls) :
          LET v == Dispatched("speed")[k].value.i
          IN  (-DEAD_ZONE <= v /\ v <= DEAD_ZONE) => MotorCalls[k].val = 1450

\* speed -7 dispatched with the flag clear and again with the flag set.
C12_Witness ==
    /\ applied = << CommandPayload("speed", Number(-7)), CommandPayload("turbo", Boolean(TRUE)),
                    CommandPayload("speed", Number(-7)) >>
    /\ turbo
    /\ SpeedTurbos = << FALSE, TRUE >>
    /\ Len(MotorCalls) = 2
    /\ MotorCalls[2].ok /\ pwm[MOTOR_CHANNEL] = 1450

\* The state main starts in.  A statement about the mappers alone has the
\* same value in every state and is evaluated in this one.
AtStart == pc = "new" /\ server = "spawned"

\* speed_to_pulse tabulated over every speed of -MaxInput..MaxInput.
SpeedTable ==
    [t \in BOOLEAN |-> [s \in -MaxInput..MaxInput |-> speed_to_pulse(s, t)]]

SpeedMonotonic ==
    \A t \in BOOLEAN : \A a, b \in -MaxInput..MaxInput :
        a <= b => SpeedTable[t][a] <= SpeedTable[t][b]

\* C13: for each turbo value, speed_to_pulse(a, t) <= speed_to_pulse(b, t)
\* for all integers a <= b of -MaxInput..MaxInput (those beyond -100..100
\* clamped); and of two speed commands dispatched under the same turbo flag,
\* the one with the larger speed has the larger or equal motor pulse written.
C13_Monotonic ==
    /\ AtStart => SpeedMonotonic
    /\ Len(MotorCalls) = Len(Dispatched("speed"))
    /\ \A i, j \in 1..Len(MotorCalls) :
          (/\ SpeedTurbos[i] = SpeedTurbos[j]
           /\ Dispatched("speed")[i].value.i <= Dispatched("speed")[j].value.i)
              => MotorCalls[i].val <= MotorCalls[j].val

\* With the flag set, speed -8 (1448) and then speed 8 (1558) dispatched.
C13_Witness ==
    /\ applied = << CommandPayload("turbo", Boolean(TRUE)), CommandPayload("speed", Number(-8)),
                    CommandPayload("speed", Number(8)) >>
    /\ SpeedTurbos = << TRUE, TRUE >>
    /\ MotorCalls[1].val = 1448 /\ MotorCalls[2].val = 1558
    /\ MotorCalls[1].ok /\ MotorCalls[2].ok

\* The direction and calibrate payloads that reached the mapper, in order,
\* and the calls each made on the front and on the back steering channel.
SteerInputs ==
    SelectSeq(applied, LAMBDA p : p.command \in {"direction", "calibrate"} /\ ~Malformed(p))

SteerCalls(ch) == SelectSeq(writes, LAMBDA w : w.dev = ch /\ w.at = "dispatch")

\* The direction a steering payload hands to direction_to_pulse.
SteerDirection(p) == IF p.command = "calibrate" THEN 0 ELSE p.value.i

\* C14: direction_to_pulse(-100) = (1150, 1375) and direction_to_pulse(100)
\* = (305, 2185); direction_to_pulse(0) lies strictly between them on each
\* axle; every direction below -100 or above 100 gives the pair of the bound
\* it is clamped to.  The pulses written for a dispatched direction at or
\* beyond a bound are that bound's pair, and those written for direction 0
\* and for calibrate are the one pair direction_to_pulse(0).
C14_DirectionEnds ==
    LET left == << FRONT_LEFT_PULSE, BACK_LEFT_PULSE >>
        right == << FRONT_RIGHT_PULSE, BACK_RIGHT_PULSE >>
        centre == direction_to_pulse(0)
        Expected(d) == IF d <= -DIRECTION_LIMIT THEN left
                       ELSE IF d >= DIRECTION_LIMIT THEN right ELSE centre
    IN  /\ direction_to_pulse(-100) = << 1150, 1375 >>
        /\ direction_to_pulse(100) = << 305, 2185 >>
        /\ FRONT_RIGHT_PULSE < centre[1] /\ centre[1] < FRONT_LEFT_PULSE
        /\ BACK_LEFT_PULSE < centre[2] /\ centre[2] < BACK_RIGHT_PULSE
        /\ \A d \in DirectionEnds : direction_to_pulse(d) = Expected(d)
        /\ Len(SteerCalls(FRONT_STEERING_CHANNEL)) = Len(SteerInputs)
        /\ Len(SteerCalls(BACK_STEERING_CHANNEL)) = Len(SteerInputs)
        /\ \A k \in 1..Len(SteerInputs) :
              LET d == SteerDirection(SteerInputs[k])
              IN  d \in DirectionEnds =>
                    /\ SteerCalls(FRONT_STEERING_CHANNEL)[k].val = Expected(d)[1]
                    /\ SteerCalls(BACK_STEERING_CHANNEL)[k].val = Expected(d)[2]

\* A direction beyond the right bound, then calibrate, dispatched; every
\* call Ok.
C14_Witness ==
    /\ applied = << CommandPayload("direction", Number(101)), CommandPayload("calibrate", Null) >>
    /\ \A k \in 1..Len(writes) : writes[k].ok
    /\ [k \in 1..Len(writes) |-> writes[k].val] = << 305, 2185, 728, 1780 >>
    /\ pwm[FRONT_STEERING_CHANNEL] = 728 /\ pwm[BACK_STEERING_CHANNEL] = 1780

\* The channels and pins the arm of command `name` calls.
Actuators(name) ==
    CASE name = "speed" -> {MOTOR_CHANNEL}
      [] name \in {"direction", "calibrate"} -> {FRONT_STEERING_CHANNEL, BACK_STEERING_CHANNEL}
      [] name = "headlights" -> {LIGHTS_PIN}
      [] name = "horn" -> {HORN_PIN}
      [] OTHER -> {}

\* C15: the step that dispatches a payload calls only the actuators of its
\* command (speed: the motor channel; direction and calibrate: the two
\* steering channels; headlights: the lights pin; horn: the horn pin; turbo:
\* none), leaves every other register and pin as it was, and changes the
\* turbo flag only if the command is turbo.  So calibrate leaves the motor
\* pulse and the flag alone, and after a turbo command the motor register
\* keeps its pulse until a speed command is dispatched.
C15_Frame ==
    [][(pc = "dispatch" /\ pc' = "recv") =>
          LET own == Actuators(command_payload[1].command)
          IN  /\ \A k \in (Len(writes) + 1)..Len(writes') : writes'[k].dev \in own
              /\ SubSeq(writes', 1, Len(writes)) = writes
              /\ \A ch \in Channels \ own : pwm'[ch] = pwm[ch]
              /\ LIGHTS_PIN \notin own => lights' = lights
              /\ HORN_PIN \notin own => horn' = horn
              /\ command_payload[1].command # "turbo" => turbo' = turbo]_vars

\* turbo true dispatched after speed 50: the motor register still holds the
\* pulse of the speed command and one call has been made in all.
C15_Witness ==
    /\ applied = << CommandPayload("speed", Number(50)), CommandPayload("turbo", Boolean(TRUE)) >>
    /\ turbo
    /\ Len(writes) = 1
    /\ writes[1].ok
    /\ pwm[MOTOR_CHANNEL] = speed_to_pulse(50, FALSE)

\* C16: the turbo flag is FALSE while nothing has been dispatched, and in
\* every state it is the value of the last dispatched turbo payload that
\* carried a boolean (FALSE if there is none): no speed, direction,
\* headlights, horn or calibrate payload, no unknown command and no turbo
\* payload without a boolean has changed it.
C16_TurboFlag ==
    /\ applied = <<>> => ~turbo
    /\ turbo = TurboAt(Len(applied) + 1)

\* turbo true dispatched, then an unknown command and a malformed speed: the
\* flag is still set.
C16_Witness ==
    /\ applied = << CommandPayload("turbo", Boolean(TRUE)), CommandPayload("dance", Null),
                    CommandPayload("speed", FloatNumber) >>
    /\ turbo

\* C17: the step main takes to dispatch a payload always returns to the
\* receive, whatever its set_pwm calls returned.  A well-formed speed
\* payload makes exactly one call on the motor channel; a well-formed
\* direction or calibrate payload makes exactly two, the front one and then
\* the back one, whether the front one failed or not.  Each register takes
\* the pulse of its call if that call returned Ok and keeps its value
\* otherwise, independently of the other call.
C17_WriteFailureTolerated ==
    [][(pc = "dispatch" /\ pc' # pc) =>
          LET p == command_payload[1]
              new == SubSeq(writes', Len(writes) + 1, Len(writes'))
              Landed(k) == pwm'[new[k].dev] = IF new[k].ok THEN new[k].val ELSE pwm[new[k].dev]
          IN  /\ pc' = "recv"
              /\ SubSeq(writes', 1, Len(writes)) = writes
              /\ (p.command = "speed" /\ ~Malformed(p)) =>
                    /\ Len(new) = 1
                    /\ new[1].dev = MOTOR_CHANNEL
                    /\ Landed(1)
              /\ (p.command \in {"direction", "calibrate"} /\ ~Malformed(p)) =>
                    /\ Len(new) = 2
                    /\ new[1].dev = FRONT_STEERING_CHANNEL
                    /\ new[2].dev = BACK_STEERING_CHANNEL
                    /\ new[1].val = direction_to_pulse(SteerDirection(p))[1]
                    /\ new[2].val = direction_to_pulse(SteerDirection(p))[2]
                    /\ Landed(1) /\ Landed(2)]_vars

\* The front write of direction -100 failed and its back write succeeded;
\* main then dispatched direction 40, whose two writes succeeded.
C17_Witness ==
    /\ applied = << CommandPayload("direction", Number(-100)),
                    CommandPayload("direction", Number(40)) >>
    /\ pc = "recv"
    /\ Len(writes) = 4
    /\ ~writes[1].ok /\ writes[2].ok /\ writes[3].ok /\ writes[4].ok
    /\ writes[2].dev = BACK_STEERING_CHANNEL /\ writes[2].val = BACK_LEFT_PULSE
    /\ pwm[FRONT_STEERING_CHANNEL] = direction_to_pulse(40)[1]

\* C18: with the turbo flag clear, the motor pulse written for a dispatched
\* speed v is round(1450 + (v - 7) * 750 / 93) for 7 < v <= 100 and
\* round(1450 + (v + 7) * 200 / 93) for -100 <= v < -7: 2200 for speed 100
\* and 1250 for speed -100.
C18_LinearSlopes ==
    \A k \in 1..Len(Dispatched("speed")) :
        LET v == Dispatched("speed")[k].value.i
            span == SPEED_LIMIT - DEAD_ZONE
            pulse == IF v > DEAD_ZONE
                     THEN RoundDiv(NEUTRAL_PULSE * span + (v - DEAD_ZONE) * FORWARD_SPAN, span)
                     ELSE RoundDiv(NEUTRAL_PULSE * span + (v + DEAD_ZONE) * REVERSE_SPAN, span)
        IN  /\ span = 93
            /\ v = 100 => pulse = 2200
            /\ v = -100 => pulse = 1250
            /\ ~SpeedTurbos[k] =>
                  /\ MotorCalls[k].val = pulse
                  /\ speed_to_pulse(v, FALSE) = pulse

\* C19: for a dispatched speed v of -100..-8, speed_to_pulse(v, TRUE) =
\* speed_to_pulse(v, FALSE) - 100, and the motor pulse written with the
\* turbo flag set is the pulse for the flag clear less 100.
C19_ReverseTurbo ==
    \A k \in 1..Len(Dispatched("speed")) :
        LET v == Dispatched("speed")[k].value.i
        IN  (-SPEED_LIMIT <= v /\ v < -DEAD_ZONE) =>
              /\ speed_to_pulse(v, TRUE) = speed_to_pulse(v, FALSE) - TURBO_OFFSET
              /\ SpeedTurbos[k] => MotorCalls[k].val = speed_to_pulse(v, FALSE) - TURBO_OFFSET

\* C20: every payload whose send returned Ok (answered 200) is eventually
\* dispatched by main, those queued while main was still initialising
\* included: the n-th acknowledged payload leads to n payloads dispatched.
C20_AcknowledgedDispatched ==
    \A n \in 1..MaxCmds : (Len(Sent) >= n) ~> (Len(applied) >= n)

\* C20 amended: every payload whose send returned Ok is eventually
\* dispatched by main, those queued while main was still initialising
\* included, unless start-up fails (Pca9685::new, init or set_pwm_freq
\* panics), which drops the queued payloads with the Receiver.
C20_DispatchedUnlessFatal ==
    \A n \in 1..MaxCmds : (Len(Sent) >= n) ~> (Len(applied) >= n \/ fatal # "none")

\* Every request of the run was acknowledged and main, started without a
\* failure, has dispatched them all.
C20_Witness ==
    /\ Len(Sent) = MaxCmds
    /\ applied = Sent
    /\ chan = <<>> /\ lost = <<>>
    /\ fatal = "none"
    /\ pc = "recv"
====
